---- MODULE Spec2Model ----
(***************************************************************************)
(* RF Signal Detector: the scan session (rf_detector/detector.py), the     *)
(* scan command's persistence step (rf_detector/cli.py) and the analysis   *)
(* reporter (visualizer.py, rf_detector/visualizer.py).                    *)
(***************************************************************************)
EXTENDS Integers, Sequences, FiniteSets, TLC

\* ------------------------------------------------------------------ bounds
\* scan_band calls made on one RFDetector instance
MaxCalls == 2
\* cap on len(results['devices']) over the life of the instance
MaxDevices == 3
\* longest devices list handed to analyze_results
MaxLen == 6
\* readings the realtime_plot thread may collect
MaxObserved == 2

\* -------------------------------------------------------- program constants
CHANNELS_2G == [i \in 1..13 |-> i]
CHANNELS_5G ==
  <<36, 40, 44, 48, 52, 56, 60, 64, 100, 104, 108, 112, 116, 120, 124, 128,
    132, 136, 140, 144, 149, 153, 157, 161, 165>>
MinStrength == -90
MaxStrength == -20
SampleSize == 3
SSIDS ==
  {"Home_Network", "TP-Link_ABCD", "AndroidAP", "iPhone", "XfinityWiFi", "ATTWiFi",
   "NETGEAR", "Linksys", "Hidden_Network", "Public_WiFi", "Guest", "<None>"}
SECURITY == {"WPA2", "WPA3", "WEP", "Open"}
TopN == 5

\* Python's None, as the value of an 'ssid' field
None == "<None>"

\* The values the random source is sampled at.  The code's ranges and choice
\* lists are intersected with these grids.
\* (strength, ssid, security) triples
DrawGrid == {<<-91, None, "WEP">>, <<-90, "Home_Network", "WPA2">>, <<-21, None, "Open">>}
\* position sequences of a channel list random.sample is sampled at
SampleGrid(channels) == {<<1, 2, Len(channels)>>, <<Len(channels), 2, 1>>}
Bands == {"2.4G", "5G", "all"}
Durations == {0, 60}

\* ------------------------------------------------------------ sequence help
Range(s) == {s[i] : i \in DOMAIN s}

IsPrefix(s, t) == Len(s) <= Len(t) /\ SubSeq(t, 1, Len(s)) = s

NoDuplicates(s) == \A i, j \in DOMAIN s : i # j => s[i] # s[j]

\* list(S) for a set S of integers: the orders it is sampled at (ascending, descending)
RECURSIVE Ascending(_)
Ascending(S) ==
  IF S = {} THEN <<>>
  ELSE LET m == CHOOSE x \in S : \A y \in S : x <= y IN <<m>> \o Ascending(S \ {m})
Reverse(s) == [i \in DOMAIN s |-> s[Len(s) + 1 - i]]
ListOfSet(S) == {Ascending(S), Reverse(Ascending(S))}

RECURSIVE SumSeq(_)
SumSeq(s) == IF s = <<>> THEN 0 ELSE Head(s) + SumSeq(Tail(s))

\* max() / min() of a non-empty list of integers
PyMax(s) == CHOOSE m \in Range(s) : \A x \in Range(s) : x <= m
PyMin(s) == CHOOSE m \in Range(s) : \A x \in Range(s) : m <= x

PyMinOf(a, b) == IF a <= b THEN a ELSE b

\* dict.get(key, default)
DictGet(d, key, default) == IF key \in DOMAIN d THEN d[key] ELSE default

Abs(x) == IF x >= 0 THEN x ELSE -x

\* int(a / b) for integers a and b > 0: the true quotient, truncated toward zero
IntOfQuotientFloor(a, b) == a \div b
IntOfQuotientAway(a, b) == IF a >= 0 THEN -((-a) \div b) ELSE a \div b
IntOfQuotient(a, b) == IF a >= 0 THEN a \div b ELSE -((-a) \div b)

\* random.randint(lo, hi): both ends included
RandInt(lo, hi) == lo..hi

\* ------------------------------------------------------------------- state
VARIABLES
  is_scanning,   \* RFDetector.is_scanning
  results,       \* RFDetector.results: devices, scan_info, summary
  pc,            \* position of the thread running scan_band / run_scan
  band,          \* scan_band's band argument
  duration,      \* scan_band's duration argument
  sample,        \* channels of the current round not yet visited
  timeup,        \* time.time() - start_time >= duration
  rounds,        \* sampling rounds started by the current call
  calls,         \* scan_band calls made so far
  clock,         \* datetime.now() readings taken so far
  file,          \* the output file of the scan command
  stop_called,   \* history: stop_scan was called since the current scan_band call began
  data,          \* analyze_results' data argument
  report,        \* what analyze_results computed and displayed
  apc,           \* position of the thread running analyze_results
  opc,           \* position of the thread running realtime_plot
  scan_data      \* the lists realtime_plot collects

scanVars ==
  <<is_scanning, results, pc, band, duration, sample, timeup, rounds, calls, clock, file,
    stop_called>>
anaVars == <<data, report, apc>>
vizVars == <<opc, scan_data>>
vars == <<scanVars, anaVars, vizVars>>

\* realtime_plot's lists before its loop: visualizer.py keeps ssids too
ScanDataRoot == [timestamps |-> <<>>, strengths |-> <<>>, channels |-> <<>>, ssids |-> <<>>]
ScanDataPkg == [timestamps |-> <<>>, strengths |-> <<>>, channels |-> <<>>]

EmptyDict == <<>>

\* analyze_results not run yet; and its 'No data to analyze' branch
NoReport == [branch |-> "none"]
NoDataReport == [branch |-> "no data"]

devices == results.devices
scan_info == results.scan_info
summary == results.summary

\* ---------------------------------------------------------------- detector
\* datetime.now().isoformat(), for the now-th reading of the clock
IsoFormat(now) == ToString(now)

\* the channel list scan_band resolves for a band (lines 28-30)
ChannelsFor(b) ==
  IF b = "all" THEN CHANNELS_2G \o CHANNELS_5G
  ELSE IF b = "2.4G" THEN CHANNELS_2G ELSE CHANNELS_5G

\* random.sample(channels, k): k distinct elements in selection order
RandomSample(channels, k) ==
  {[i \in 1..k |-> channels[g[i]]] : g \in SampleGrid(channels)}

\* _simulate_device(channel, band): the records it can return
SimulateDevice(channel, b, now) ==
  {[channel |-> channel, strength |-> id[1], ssid |-> id[2], band |-> b,
    security |-> id[3], first_seen |-> IsoFormat(now),
    last_seen |-> IsoFormat(now + 1)] :
      id \in (RandInt(MinStrength, MaxStrength) \X SSIDS \X SECURITY) \cap DrawGrid}

Strengths(devs) == [i \in DOMAIN devs |-> devs[i].strength]
ChannelSet(devs) == {devs[i].channel : i \in DOMAIN devs}

PyList(items) == [type |-> "list", items |-> items]
PySet(items) == [type |-> "set", items |-> items]

\* _generate_summary: the summaries it can store for a devices list; list(set)
\* yields the distinct channels in an order the language leaves open
GenerateSummaryDup(devs, info) ==
  IF devs = <<>>
    THEN {[total_signals |-> 0, avg_strength |-> 0, max_strength |-> 0,
           channels |-> PySet(<<>>), duration |-> 0]}
    ELSE {[total_signals |-> Len(devs),
           avg_strength |-> IntOfQuotient(SumSeq(Strengths(devs)), Len(devs)),
           max_strength |-> PyMax(Strengths(devs)),
           min_strength |-> PyMin(Strengths(devs)),
           channels |-> PyList([i \in DOMAIN devs |-> devs[i].channel]),
           duration |-> info.duration]}
GenerateSummary(devs, info) ==
  IF devs = <<>>
    THEN {[total_signals |-> 0, avg_strength |-> 0, max_strength |-> 0,
           channels |-> PySet(<<>>), duration |-> 0]}
    ELSE {[total_signals |-> Len(devs),
           avg_strength |-> IntOfQuotient(SumSeq(Strengths(devs)), Len(devs)),
           max_strength |-> PyMax(Strengths(devs)),
           min_strength |-> PyMin(Strengths(devs)),
           channels |-> PyList(order),
           duration |-> info.duration] : order \in ListOfSet(ChannelSet(devs))}

\* ------------------------------------------------------------- persistence
\* JSON values
JNull == [j |-> "null"]
JString(s) == [j |-> "string", v |-> s]
JNumber(n) == [j |-> "number", v |-> n]
JArray(items) == [j |-> "array", v |-> items]
JObject(members) == [j |-> "object", v |-> members]

NoFile == [j |-> "absent"]
\* what is left in the file when json.dump raises part-way
Truncated == [j |-> "truncated"]

DumpSsid(ss) == IF ss = None THEN JNull ELSE JString(ss)

DumpDevice(d) ==
  JObject([channel |-> JNumber(d.channel), strength |-> JNumber(d.strength),
           ssid |-> DumpSsid(d.ssid), band |-> JString(d.band),
           security |-> JString(d.security),
           first_seen |-> JString(d.first_seen), last_seen |-> JString(d.last_seen)])

DumpIntList(s) == JArray([i \in DOMAIN s |-> JNumber(s[i])])

DumpScanInfo(info) ==
  JObject([band |-> JString(info.band), channels |-> DumpIntList(info.channels),
           start_time |-> JString(info.start_time), duration |-> JNumber(info.duration)])

\* the JSON encoder accepts lists, not sets
Encodable(s) == s.channels.type = "list"

DumpSummary(s) ==
  JObject([k \in DOMAIN s |->
             IF k = "channels" THEN DumpIntList(s.channels.items) ELSE JNumber(s[k])])

\* json.dump(results, f)
JsonDump(res) ==
  JObject([devices |-> JArray([i \in DOMAIN res.devices |-> DumpDevice(res.devices[i])]),
           scan_info |-> DumpScanInfo(res.scan_info),
           summary |-> DumpSummary(res.summary)])

\* json.load(f): null is None, an array is a list, an object is a dict
RECURSIVE JsonLoad(_)
JsonLoad(x) ==
  CASE x.j = "null" -> None
    [] x.j \in {"string", "number"} -> x.v
    [] x.j = "array" -> [i \in DOMAIN x.v |-> JsonLoad(x.v[i])]
    [] x.j = "object" -> [k \in DOMAIN x.v |-> JsonLoad(x.v[k])]

Init ==
  /\ is_scanning = FALSE
  /\ results = [devices |-> <<>>, scan_info |-> EmptyDict, summary |-> EmptyDict]
  /\ pc = "idle"
  /\ band = "2.4G"
  /\ duration = 60
  /\ sample = <<>>
  /\ timeup = FALSE
  /\ rounds = 0
  /\ calls = 0
  /\ clock = 0
  /\ file = NoFile
  /\ stop_called = FALSE
  /\ opc = "none"
  /\ scan_data = ScanDataPkg
  /\ data = [devices |-> <<>>]
  /\ report = NoReport
  /\ apc = "idle"

\* scan_band lines 26-37: resolve the channels, record scan_info
ScanBand(b, d) ==
  /\ pc \in {"idle", "returned"}
  /\ calls < MaxCalls
  /\ band' = b
  /\ duration' = d
  /\ results' = [results EXCEPT !.scan_info =
                   [band |-> b, channels |-> ChannelsFor(b),
                    start_time |-> IsoFormat(clock), duration |-> d]]
  /\ clock' = clock + 1
  /\ calls' = calls + 1
  /\ rounds' = 0
  /\ sample' = <<>>
  /\ timeup' = FALSE
  /\ pc' = "set_scanning"
  /\ stop_called' = FALSE
  /\ UNCHANGED <<is_scanning, file, anaVars, vizVars>>

\* lines 39-43: raise the flag, read start_time, test the visualizer argument
SetScanning ==
  /\ pc = "set_scanning"
  /\ is_scanning' = TRUE
  /\ timeup' = (duration <= 0)
  /\ pc' = IF opc = "ready" THEN "start_viz" ELSE "while"
  /\ UNCHANGED <<results, band, duration, sample, rounds, calls, clock, file, anaVars, stop_called, vizVars>>

\* the clock passes the time budget
TimeUp ==
  /\ pc \in {"start_viz", "while", "for", "append", "sleep"}
  /\ ~timeup
  /\ timeup' = TRUE
  /\ UNCHANGED <<is_scanning, results, pc, band, duration, sample, rounds, calls, clock, file, anaVars, stop_called, vizVars>>

\* line 54: the loop condition
WhileCondNoFlag(up, scanning) == ~up
WhileCond(up, scanning) == ~up /\ scanning

\* line 54 true, line 56: draw this round's channels
WhileEnter ==
  /\ pc = "while"
  /\ WhileCond(timeup, is_scanning)
  /\ Len(devices) < MaxDevices
  /\ \E s \in RandomSample(scan_info.channels,
                           PyMinOf(SampleSize, Len(scan_info.channels))) :
       sample' = s
  /\ rounds' = rounds + 1
  /\ pc' = "for"
  /\ UNCHANGED <<is_scanning, results, band, duration, timeup, calls, clock, file, anaVars, stop_called, vizVars>>

\* line 54 false: leave the loop
WhileExit ==
  /\ pc = "while"
  /\ ~WhileCond(timeup, is_scanning)
  /\ pc' = "summary"
  /\ UNCHANGED <<is_scanning, results, band, duration, sample, timeup, rounds, calls, clock, file, anaVars, stop_called, vizVars>>

\* lines 56-58: next channel of the round, or leave the round
ForStep ==
  /\ pc = "for"
  /\ IF sample = <<>> \/ ~is_scanning
       THEN pc' = "sleep"
       ELSE Len(devices) < MaxDevices /\ pc' = "append"
  /\ UNCHANGED <<is_scanning, results, band, duration, sample, timeup, rounds, calls, clock, file, anaVars, stop_called, vizVars>>

\* lines 60-67 with the sighting put at the front of the list
AppendDeviceAtFront ==
  /\ pc = "append"
  /\ \E device \in SimulateDevice(Head(sample), band, clock) :
       results' = [results EXCEPT !.devices = <<device>> \o @]
  /\ clock' = clock + 2
  /\ sample' = Tail(sample)
  /\ pc' = "for"
  /\ UNCHANGED <<is_scanning, band, duration, timeup, rounds, calls, file, anaVars, stop_called, vizVars>>

\* lines 60-67: generate one sighting and append it
AppendDevice ==
  /\ pc = "append"
  /\ \E device \in SimulateDevice(Head(sample), band, clock) :
       results' = [results EXCEPT !.devices = Append(@, device)]
  /\ clock' = clock + 2
  /\ sample' = Tail(sample)
  /\ pc' = "for"
  /\ UNCHANGED <<is_scanning, band, duration, timeup, rounds, calls, file, anaVars, stop_called, vizVars>>

\* line 69: the delay between rounds
Sleep ==
  /\ pc = "sleep"
  /\ sample' = <<>>
  /\ pc' = "while"
  /\ UNCHANGED <<is_scanning, results, band, duration, timeup, rounds, calls, clock, file, anaVars, stop_called, vizVars>>

\* lines 71-72: compute the summary and return
Summarize ==
  /\ pc = "summary"
  /\ \E s \in GenerateSummary(devices, scan_info) :
       results' = [results EXCEPT !.summary = s]
  /\ pc' = "returned"
  /\ UNCHANGED <<is_scanning, band, duration, sample, timeup, rounds, calls, clock, file, anaVars, stop_called, vizVars>>

\* scan_band has been entered and has not returned
InCall == pc \in {"set_scanning", "start_viz", "while", "for", "append", "sleep", "summary"}

\* stop_scan, from any thread, at any time
StopScan ==
  /\ is_scanning' = FALSE
  /\ stop_called' = InCall
  /\ UNCHANGED <<results, pc, band, duration, sample, timeup, rounds, calls, clock, file, anaVars, vizVars>>

\* run_scan lines 87-90: write the returned results to the output file
SaveResults ==
  /\ pc = "returned"
  /\ IF Encodable(summary)
       THEN file' = JsonDump(results) /\ pc' = "saved"
       ELSE file' = Truncated /\ pc' = "raised"
  /\ UNCHANGED <<is_scanning, results, band, duration, sample, timeup, rounds, calls, clock, anaVars, stop_called, vizVars>>

Next ==
  \/ \E b \in Bands, d \in Durations : ScanBand(b, d)
  \/ SetScanning
  \/ TimeUp
  \/ WhileEnter
  \/ WhileExit
  \/ ForStep
  \/ AppendDevice
  \/ Sleep
  \/ Summarize
  \/ StopScan
  \/ SaveResults

Spec == Init /\ [][Next]_vars

\* scan_band called directly, with any band string: the three bands and one other
BandArgs == Bands \cup {"6G"}

NextApi ==
  \/ \E b \in BandArgs, d \in Durations : ScanBand(b, d)
  \/ SetScanning
  \/ TimeUp
  \/ WhileEnter
  \/ WhileExit
  \/ ForStep
  \/ AppendDevice
  \/ Sleep
  \/ Summarize
  \/ StopScan
  \/ SaveResults

SpecApi == Init /\ [][NextApi]_vars

\* ---------------------------------------------------------------- observer
\* run_scan lines 81-84: a fresh detector, scanned once with the visualizer
InitV ==
  /\ is_scanning = FALSE
  /\ results = [devices |-> <<>>, scan_info |-> EmptyDict, summary |-> EmptyDict]
  /\ pc = "idle"
  /\ band = "2.4G"
  /\ duration = 60
  /\ sample = <<>>
  /\ timeup = FALSE
  /\ rounds = 0
  /\ calls = 0
  /\ clock = 0
  /\ file = NoFile
  /\ stop_called = FALSE
  /\ data = [devices |-> <<>>]
  /\ report = NoReport
  /\ apc = "idle"
  /\ opc = "ready"
  /\ scan_data \in {ScanDataRoot, ScanDataPkg}

RunScan(b, d) ==
  /\ pc = "idle"
  /\ ScanBand(b, d)

\* scan_band lines 43-49: start the thread that runs realtime_plot
StartViz ==
  /\ pc = "start_viz"
  /\ opc' = "entered"
  /\ pc' = "while"
  /\ UNCHANGED <<is_scanning, results, band, duration, sample, timeup, rounds, calls, clock,
                 file, stop_called, anaVars, scan_data>>

\* realtime_plot up to its loop: return at once without matplotlib
VizEnter ==
  /\ opc = "entered"
  /\ \E plotting_available \in BOOLEAN :
       opc' = IF plotting_available THEN "check" ELSE "done"
  /\ UNCHANGED <<scanVars, anaVars, scan_data>>

\* realtime_plot's loop condition: its own time budget and detector.is_scanning
VizCheck ==
  /\ opc = "check"
  /\ \E elapsed \in BOOLEAN :
       /\ duration <= 0 => elapsed
       /\ IF ~elapsed /\ is_scanning
            THEN Len(scan_data.strengths) < MaxObserved /\ opc' = "body"
            ELSE opc' = "done"
  /\ UNCHANGED <<scanVars, anaVars, scan_data>>

\* latest.get('ssid', 'Unknown')
LatestField(latest, k) ==
  IF k = "ssids" THEN DictGet(latest, "ssid", "Unknown")
  ELSE IF k = "strengths" THEN latest.strength
  ELSE latest.channel

\* the lists after one more reading of the latest sighting; a timestamp is kept
\* as the number of the reading
Collect(lists, latest) ==
  [k \in DOMAIN lists |->
     IF k = "timestamps" THEN Append(lists[k], Len(lists[k]) + 1)
     ELSE Append(lists[k], LatestField(latest, k))]

\* the loop body, taking the latest sighting off the detector's list
VizBodyPop ==
  /\ opc = "body"
  /\ IF devices # <<>>
       THEN /\ scan_data' = Collect(scan_data, devices[Len(devices)])
            /\ results' = [results EXCEPT !.devices = SubSeq(@, 1, Len(@) - 1)]
       ELSE UNCHANGED <<scan_data, results>>
  /\ opc' = "check"
  /\ UNCHANGED <<is_scanning, pc, band, duration, sample, timeup, rounds, calls, clock,
                 file, stop_called, anaVars>>

\* the loop body: read the latest sighting, if any, into the lists
VizBody ==
  /\ opc = "body"
  /\ IF devices # <<>>
       THEN scan_data' = Collect(scan_data, devices[Len(devices)])
       ELSE UNCHANGED scan_data
  /\ opc' = "check"
  /\ UNCHANGED <<scanVars, anaVars>>

NextV ==
  \/ \E b \in Bands, d \in Durations : RunScan(b, d)
  \/ SetScanning
  \/ StartViz
  \/ TimeUp
  \/ WhileEnter
  \/ WhileExit
  \/ ForStep
  \/ AppendDevice
  \/ Sleep
  \/ Summarize
  \/ StopScan
  \/ SaveResults
  \/ VizEnter
  \/ VizCheck
  \/ VizBody

SpecV == InitV /\ [][NextV]_vars

\* ---------------------------------------------------------------- reporter


\* security[sec] = security.get(sec, 0) + 1 on an insertion-ordered dict, kept
\* as the sequence of its (key, count) items
DictIncrMoveToEnd(items, key) ==
  LET old == {i \in DOMAIN items : items[i].key = key}
      rest == SelectSeq(items, LAMBDA it : it.key # key)
  IN  IF old = {} THEN Append(items, [key |-> key, count |-> 0 + 1])
      ELSE Append(rest, [key |-> key, count |-> items[CHOOSE i \in old : TRUE].count + 1])
DictIncr(items, key) ==
  IF \E i \in DOMAIN items : items[i].key = key
    THEN [i \in DOMAIN items |->
            IF items[i].key = key
              THEN [key |-> key, count |-> items[i].count + 1]
              ELSE items[i]]
    ELSE Append(items, [key |-> key, count |-> 0 + 1])

\* the security loop over devices
RECURSIVE SecurityLoop(_, _)
SecurityLoop(devs, items) ==
  IF devs = <<>> THEN items
  ELSE SecurityLoop(Tail(devs), DictIncr(items, DictGet(Head(devs), "security", "Unknown")))

SecurityCounts(devs) == SecurityLoop(devs, <<>>)

\* sorted(devices, key=strength, reverse=True), as the positions in devices of
\* the records it returns: a stable sort, records of equal key keep their order
InsertBeforeEqual(order, i, devs) ==
  LET before == {k \in DOMAIN order : devs[order[k]].strength > devs[i].strength}
      n == Cardinality(before)
  IN  SubSeq(order, 1, n) \o <<i>> \o SubSeq(order, n + 1, Len(order))
InsertDescending(order, i, devs) ==
  LET before == {k \in DOMAIN order : devs[order[k]].strength >= devs[i].strength}
      n == Cardinality(before)
  IN  SubSeq(order, 1, n) \o <<i>> \o SubSeq(order, n + 1, Len(order))

RECURSIVE SortLoop(_, _, _)
SortLoop(devs, i, order) ==
  IF i > Len(devs) THEN order
  ELSE SortLoop(devs, i + 1, InsertDescending(order, i, devs))

SortedByStrengthDesc(devs) == SortLoop(devs, 1, <<>>)

\* s[:n]
Slice(s, n) == SubSeq(s, 1, PyMinOf(n, Len(s)))

\* ssids = [d.get('ssid', 'Hidden') ...]; a name counts as visible when it is
\* truthy and not 'Hidden'
Ssids(devs) == [i \in DOMAIN devs |-> DictGet(devs[i], "ssid", "Hidden")]
Truthy(ssid) == ssid # None /\ ssid # ""
VisibleCount(devs) ==
  Cardinality({i \in DOMAIN devs : Truthy(Ssids(devs)[i]) /\ Ssids(devs)[i] # "Hidden"})
HiddenCount(devs) ==
  Cardinality({i \in DOMAIN devs : ~Truthy(Ssids(devs)[i]) \/ Ssids(devs)[i] = "Hidden"})

\* the records analyze_results can be given, and the data built from them
RecordGrid ==
  {[channel |-> 1, strength |-> -30, ssid |-> "Home_Network", security |-> "WPA2"],
   [channel |-> 6, strength |-> -90, ssid |-> None, security |-> "Open"],
   [channel |-> 11, strength |-> -30, ssid |-> "Guest"],
   [channel |-> 1, strength |-> -45, ssid |-> "Guest", security |-> "WPA2"]}

InputData ==
  {[summary |-> EmptyDict]} \cup
  {[devices |-> devs, summary |-> EmptyDict] :
     devs \in UNION {[1..n -> RecordGrid] : n \in 0..MaxLen}}

HasDevices(d) == DictGet(d, "devices", <<>>) # <<>>

InitA ==
  /\ is_scanning = FALSE
  /\ results = [devices |-> <<>>, scan_info |-> EmptyDict, summary |-> EmptyDict]
  /\ pc = "idle"
  /\ band = "2.4G"
  /\ duration = 60
  /\ sample = <<>>
  /\ timeup = FALSE
  /\ rounds = 0
  /\ calls = 0
  /\ clock = 0
  /\ file = NoFile
  /\ stop_called = FALSE
  /\ opc = "none"
  /\ scan_data = ScanDataPkg
  /\ data \in InputData
  /\ report = NoReport
  /\ apc = "called"

\* visualizer.py analyze_results, lines 54-105, with the devices list sorted in place
AnalyzeResultsSortInPlace ==
  /\ apc = "called"
  /\ \E generate_plots \in BOOLEAN, plotting_available \in BOOLEAN :
       IF ~HasDevices(data)
         THEN report' = NoDataReport /\ data' = data
         ELSE /\ report' =
                   [branch |-> "analysis",
                    total |-> Len(data.devices),
                    channels |-> Ascending(ChannelSet(data.devices)),
                    min_strength |-> PyMin(Strengths(data.devices)),
                    max_strength |-> PyMax(Strengths(data.devices)),
                    visible |-> VisibleCount(data.devices),
                    hidden |-> HiddenCount(data.devices),
                    security |-> SecurityCounts(data.devices),
                    strongest |-> Slice(SortedByStrengthDesc(data.devices), TopN),
                    plots |-> generate_plots /\ plotting_available]
              /\ data' = [data EXCEPT !.devices =
                            [k \in DOMAIN @ |-> @[SortedByStrengthDesc(@)[k]]]]
  /\ apc' = "done"
  /\ UNCHANGED <<scanVars, vizVars>>

\* visualizer.py analyze_results, lines 54-105
AnalyzeResults ==
  /\ apc = "called"
  /\ \E generate_plots \in BOOLEAN, plotting_available \in BOOLEAN :
       IF ~HasDevices(data)
         THEN report' = NoDataReport
         ELSE report' =
                [branch |-> "analysis",
                 total |-> Len(data.devices),
                 channels |-> Ascending(ChannelSet(data.devices)),
                 min_strength |-> PyMin(Strengths(data.devices)),
                 max_strength |-> PyMax(Strengths(data.devices)),
                 visible |-> VisibleCount(data.devices),
                 hidden |-> HiddenCount(data.devices),
                 security |-> SecurityCounts(data.devices),
                 strongest |-> Slice(SortedByStrengthDesc(data.devices), TopN),
                 plots |-> generate_plots /\ plotting_available]
  /\ apc' = "done"
  /\ UNCHANGED <<scanVars, data, vizVars>>

\* rf_detector/visualizer.py analyze_results, lines 64-95
AnalyzeResultsPkg ==
  /\ apc = "called"
  /\ \E generate_plots \in BOOLEAN, plotting_available \in BOOLEAN :
       IF ~HasDevices(data)
         THEN report' = NoDataReport
         ELSE report' =
                [branch |-> "analysis",
                 channels |-> Ascending(ChannelSet(data.devices)),
                 min_strength |-> PyMin(Strengths(data.devices)),
                 max_strength |-> PyMax(Strengths(data.devices)),
                 security |-> SecurityCounts(data.devices),
                 plots |-> generate_plots /\ plotting_available]
  /\ apc' = "done"
  /\ UNCHANGED <<scanVars, data, vizVars>>

NextA ==
  \/ AnalyzeResults
  \/ AnalyzeResultsPkg

SpecA == InitA /\ [][NextA]_vars

\* ================================================================== claims
Returned == pc = "returned"
InLoop == pc \in {"while", "for", "append", "sleep"}
ValidChannels(b) ==
  IF b = "2.4G" THEN Range(CHANNELS_2G) ELSE IF b = "5G" THEN Range(CHANNELS_5G) ELSE {}

\* C1: every record of devices has strength in [-90,-20], a band field that is
\* '2.4G' or '5G', and a channel valid for that band field.
C1_EveryDeviceValid ==
  \A i \in DOMAIN devices :
    /\ devices[i].strength \in MinStrength..MaxStrength
    /\ devices[i].band \in {"2.4G", "5G"}
    /\ devices[i].channel \in ValidChannels(devices[i].band)

\* C2: when scan_band has returned with devices non-empty, the summary's
\* max, min and count are those of devices and its channels are exactly the
\* distinct channels of devices, each once.
C2_SummaryMatchesDevices ==
  (Returned /\ devices # <<>>) =>
    /\ \A i \in DOMAIN devices : devices[i].strength <= summary.max_strength
    /\ \E i \in DOMAIN devices : devices[i].strength = summary.max_strength
    /\ \A i \in DOMAIN devices : devices[i].strength >= summary.min_strength
    /\ \E i \in DOMAIN devices : devices[i].strength = summary.min_strength
    /\ summary.total_signals = Len(devices)
    /\ Range(summary.channels.items) = ChannelSet(devices)
    /\ NoDuplicates(summary.channels.items)

C2_Witness ==
  /\ Returned
  /\ Len(devices) = 3
  /\ Cardinality(ChannelSet(devices)) = 2
  /\ summary.max_strength # summary.min_strength

\* C3 as stated: avg_strength is the floor of the mean of the strengths.
C3_AvgIsFloorOfMean ==
  (Returned /\ devices # <<>>) =>
    /\ summary.avg_strength * Len(devices) <= SumSeq(Strengths(devices))
    /\ (summary.avg_strength + 1) * Len(devices) > SumSeq(Strengths(devices))

\* C3 as amended: avg_strength is the ceiling of the mean of the strengths (the
\* least integer not below it).
C3_AvgIsCeilingOfMean ==
  (Returned /\ devices # <<>>) =>
    /\ summary.avg_strength * Len(devices) >= SumSeq(Strengths(devices))
    /\ (summary.avg_strength - 1) * Len(devices) < SumSeq(Strengths(devices))

C3_Witness ==
  /\ Returned
  /\ Len(devices) = 2
  /\ summary.avg_strength * 2 > SumSeq(Strengths(devices))

\* C4: avg_strength is the mean with its fractional part dropped toward zero;
\* strengths [-90,-21] give -55.
C4_AvgTruncatesTowardZero ==
  (Returned /\ devices # <<>>) =>
    LET total == SumSeq(Strengths(devices))
        n == Len(devices)
        avg == summary.avg_strength
    IN  /\ Abs(avg) * n <= Abs(total)
        /\ Abs(total) - Abs(avg) * n < n
        /\ (avg # 0 => (avg < 0) = (total < 0))
        /\ (Strengths(devices) = <<-90, -21>> => avg = -55)

C4_Witness ==
  /\ Returned
  /\ Strengths(devices) = <<-90, -21>>
  /\ summary.avg_strength = -55

\* C5: when scan_band has returned with devices empty, the summary has
\* total_signals, avg_strength and max_strength 0, no channels, a
\* min_strength field and the scan's duration.
C5_EmptySummaryComplete ==
  (Returned /\ devices = <<>>) =>
    /\ summary.total_signals = 0
    /\ summary.avg_strength = 0
    /\ summary.max_strength = 0
    /\ summary.channels.items = <<>>
    /\ "min_strength" \in DOMAIN summary
    /\ summary.duration = scan_info.duration

\* C6: once stop_scan has cleared the flag while the loop is active, no new
\* sampling round starts, the sightings already in devices keep their
\* positions and values, and scan_band returns with the summary of devices.
C6_StopEndsLoop ==
  [][(InLoop /\ ~is_scanning) =>
       /\ rounds' = rounds
       /\ IsPrefix(devices, devices')
       /\ pc' \in {"for", "append", "sleep", "while", "summary"}
       /\ (pc = "while" => pc' \in {"while", "summary"})]_vars

C6_Witness ==
  /\ Returned
  /\ ~is_scanning
  /\ calls = 1
  /\ rounds = 1
  /\ Len(devices) = 2
  /\ summary.total_signals = 2

\* C7: every returned result can be written as JSON and read back, giving an
\* equal devices list and a summary whose channels is an array and whose
\* values are those recomputed from the devices read back.
C7_JsonRoundTrip ==
  /\ pc # "raised"
  /\ pc = "saved" =>
       LET loaded == JsonLoad(file)
       IN  /\ loaded.devices = devices
           /\ file.v.summary.v.channels.j = "array"
           /\ \E s \in GenerateSummary(loaded.devices, loaded.scan_info) :
                /\ DOMAIN s = DOMAIN loaded.summary
                /\ \A k \in DOMAIN s \ {"channels"} : loaded.summary[k] = s[k]
                /\ Range(loaded.summary.channels) = Range(s.channels.items)

Analysed == apc = "done" /\ report.branch = "analysis"
SecurityOf(d) == DictGet(d, "security", "Unknown")
FirstWith(devs, key) == CHOOSE i \in DOMAIN devs :
  SecurityOf(devs[i]) = key /\ \A j \in 1..(i - 1) : SecurityOf(devs[j]) # key

\* C8: in the security mapping each key's count is the number of records with
\* that security value ('Unknown' for a record without the field), the counts
\* sum to len(devices), and the keys are in order of first occurrence.
C8_SecurityCounts ==
  Analysed =>
    LET devs == data.devices
        sec == report.security
    IN  /\ {sec[k].key : k \in DOMAIN sec} = {SecurityOf(devs[i]) : i \in DOMAIN devs}
        /\ \A k \in DOMAIN sec :
             sec[k].count = Cardinality({i \in DOMAIN devs : SecurityOf(devs[i]) = sec[k].key})
        /\ SumSeq([k \in DOMAIN sec |-> sec[k].count]) = Len(devs)
        /\ \A k, l \in DOMAIN sec :
             k < l => FirstWith(devs, sec[k].key) < FirstWith(devs, sec[l].key)
        /\ ([i \in DOMAIN devs |-> SecurityOf(devs[i])] = <<"WPA2", "Open", "WPA2">> =>
              sec = <<[key |-> "WPA2", count |-> 2], [key |-> "Open", count |-> 1]>>)

C8_Witness ==
  /\ Analysed
  /\ Len(data.devices) >= 4
  /\ Len(report.security) = 3
  /\ report.security[1].key = "Open"
  /\ report.security[2] = [key |-> "Unknown", count |-> 2]
  /\ SecurityOf(data.devices[Len(data.devices)]) = "Open"

\* C9: the top-5 ranking lists min(5, len(devices)) records in non-increasing
\* strength order, no omitted record is stronger than a listed one, and records
\* of equal strength are in their order in devices.
C9_TopFiveStable ==
  (Analysed /\ "strongest" \in DOMAIN report) =>
    LET devs == data.devices
        top == report.strongest
    IN  /\ Len(top) = PyMinOf(TopN, Len(devs))
        /\ Range(top) \subseteq DOMAIN devs
        /\ NoDuplicates(top)
        /\ \A k, l \in DOMAIN top :
             k < l => /\ devs[top[k]].strength >= devs[top[l]].strength
                      /\ (devs[top[k]].strength = devs[top[l]].strength => top[k] < top[l])
        /\ \A i \in DOMAIN devs \ Range(top) :
             \A k \in DOMAIN top : devs[i].strength <= devs[top[k]].strength
        /\ (Strengths(devs) = <<-30, -90, -30, -45>> => top = <<1, 3, 4, 2>>)

C9_Witness ==
  /\ Analysed
  /\ "strongest" \in DOMAIN report
  /\ Len(data.devices) = 6
  /\ Len(report.strongest) = 5
  /\ SubSeq(Strengths(data.devices), 1, 4) = <<-30, -90, -30, -45>>
  /\ data.devices[6].strength = -30

\* C10: analyze_results on data whose devices is empty or absent takes the
\* 'no data' branch and computes nothing, and on every input it leaves the
\* data as it was.
C10_NoDataAndInputUntouched ==
  [][/\ data' = data
     /\ (apc' = "done" /\ ~HasDevices(data)) => report' = NoDataReport
     /\ (apc' = "done" /\ HasDevices(data)) => report'.branch = "analysis"]_vars

C10_Witness ==
  /\ apc = "done"
  /\ report = NoDataReport
  /\ "devices" \notin DOMAIN data

\* C11: devices only grows at its end, so every earlier value is a prefix of
\* every later one; the summary is written only by the step that follows the
\* loop's exit, and from that step to scan_band's return no sighting is added.
C11_AppendOnlyThenSummary ==
  [][/\ IsPrefix(devices, devices')
     /\ Len(devices') <= Len(devices) + 1
     /\ (devices' # devices => pc = "append")
     /\ (results'.summary # results.summary => (pc = "summary" /\ pc' = "returned"))
     /\ (pc = "summary" => devices' = devices)]_vars

C11_Witness ==
  /\ Returned
  /\ calls = 2
  /\ Len(devices) = 3
  /\ devices[1].band # devices[3].band
  /\ summary.total_signals = 3

\* C12: a scan_band call with a band other than '2.4G', '5G' and 'all' is
\* rejected before the loop: it records no channel list for that band, never
\* reaches the loop or the summary, and appends no sighting.
C12_InvalidBandRejected ==
  band \notin Bands =>
    /\ DictGet(scan_info, "band", "2.4G") # band
    /\ ~InLoop
    /\ pc \notin {"set_scanning", "summary", "returned"}
    /\ \A i \in DOMAIN devices : devices[i].band # band

\* C14: the result a scan_band call returns holds only that call's sightings:
\* every record's band is scan_info's band, every summary channel is one of
\* scan_info's channels, and total_signals is no more than the call's rounds
\* can have produced.
C14_ResultOfThisCallOnly ==
  Returned =>
    /\ \A i \in DOMAIN devices : devices[i].band = scan_info.band
    /\ Range(summary.channels.items) \subseteq Range(scan_info.channels)
    /\ summary.total_signals <= rounds * SampleSize

\* C15: a stop_scan call made at any point after scan_band was entered keeps
\* the flag down for the rest of the call, so the loop's next check ends it,
\* and once scan_band has returned is_scanning is False.
C15_StopNeverLost ==
  /\ (InCall /\ stop_called) => ~is_scanning
  /\ Returned => ~is_scanning

\* C13: no step of the realtime_plot thread changes results or is_scanning,
\* whatever the interleaving: devices, scan_info, summary and the flag change
\* only in steps of scan_band and stop_scan.
C13_ObserverReadsOnly ==
  [][/\ (opc' # opc \/ scan_data' # scan_data) =>
          (results' = results /\ is_scanning' = is_scanning)
     /\ (results' # results => (pc' # pc /\ scan_data' = scan_data))]_vars

C13_Witness ==
  /\ Returned
  /\ opc = "done"
  /\ Len(devices) = 3
  /\ Len(scan_data.strengths) = 2
  /\ scan_data.channels = <<devices[1].channel, devices[3].channel>>
  /\ summary.total_signals = 3

====
